---- MODULE Spec2Model ----
(***************************************************************************)
(* CellOpt<T>: a zero-or-one value container behind a std::cell::Cell      *)
(* (src/src/lib.rs).  Every method is modelled as an operator from the     *)
(* slot content before the call to an outcome record                       *)
(*   [slot, ret, calls, obs, dropped]                                      *)
(* built, as in the source, from the two primitives take and overwrite.    *)
(* A value of T is a record [data, copy]: `copy` tells a duplicate made by *)
(* T::clone from the value that was moved into the container, so that      *)
(* "the same value is put back" is something a check can refute.           *)
(***************************************************************************)
EXTENDS Integers, Sequences, FiniteSets, TLC

VARIABLES cells, last, hist, abs

vars == <<cells, last, hist, abs>>

(* ------------------------------ bounds --------------------------------- *)

MaxVal == 2

NumCells == 2

ScenLen == 5

Data == 0..MaxVal

Cells == 1..NumCells

(* ------------------------------ the type T ----------------------------- *)

\* a value the caller constructs and moves into the container
Fresh(d) == [data |-> d, copy |-> FALSE]

Inputs == {Fresh(d) : d \in Data}

\* T::clone: an equal value that is another object
CloneT(v) == [data |-> v.data, copy |-> TRUE]

(* --------------------------- Option, Result ---------------------------- *)

None == [tag |-> "None"]

Some(v) == [tag |-> "Some", val |-> v]

Ok(v) == [tag |-> "Ok", val |-> v]

OkUnit == [tag |-> "OkUnit"]

ErrEmpty == [tag |-> "Err", err |-> "Empty"]

InsertErr(value, e) == [tag |-> "Err", insert_try |-> value, err |-> e]

Unit == [tag |-> "Unit"]

Bool(b) == [tag |-> "Bool", b |-> b]

Val(v) == [tag |-> "Val", val |-> v]

Panic == [tag |-> "Panic"]

CellValue(s) == [tag |-> "CellOpt", slot |-> s]

\* Option::ok_or
OkOr(o, e) == IF o.tag = "Some" THEN Ok(o.val) ELSE e

\* Result::ok
ResultOk(r) == IF r.tag = "Ok" THEN Some(r.val) ELSE None

\* the values an Option owns (what dropping it drops)
Held(o) == IF o.tag = "Some" THEN <<o.val>> ELSE <<>>

(* ------------------------------ std Cell ------------------------------- *)

\* Cell::take: leaves Default::default() (None) behind, returns the content
CellTake(s) == [slot |-> None, out |-> s]

\* Cell::replace: stores o, returns the old content
CellReplace(s, o) == [slot |-> o, out |-> s]

(* ----------------------------- outcomes -------------------------------- *)

Out(s, r) == [slot |-> s, ret |-> r, calls |-> <<>>, obs |-> <<>>, dropped |-> <<>>]

\* b ran after a: b's slot and return value, the logs of both
Then(a, b) ==
    [slot |-> b.slot, ret |-> b.ret, calls |-> a.calls \o b.calls,
     obs |-> a.obs \o b.obs, dropped |-> a.dropped \o b.dropped]

(* ------------------------ constructors (8-14, 42-47) ------------------- *)

CellOptDefault == None

CellOptNew(value) == Some(value)

(* ------------------------------ primitives ----------------------------- *)

\* mutant: reads the value and leaves it in the slot
TakeKeeps(s) == Out(s, OkOr(s, ErrEmpty))

Take(s) ==
    LET r == CellTake(s)
    IN  Out(r.slot, OkOr(r.out, ErrEmpty))

\* mutant: keeps the value already held
OverwriteIfEmpty(s, value) ==
    IF s.tag = "Some" THEN [Out(s, Unit) EXCEPT !.dropped = <<value>>]
                      ELSE Out(Some(value), Unit)

Overwrite(s, value) ==
    LET r == CellReplace(s, Some(value))
    IN  [Out(r.slot, Unit) EXCEPT !.dropped = Held(r.out)]

\* mutant: reports occupancy and forgets to put the value back
IsOccupiedNoRestore(s) ==
    LET t == Take(s)
    IN  [t EXCEPT !.ret = Bool(t.ret.tag = "Ok")]

IsOccupied(s) ==
    LET t == Take(s)
    IN  IF t.ret.tag = "Ok"
        THEN [Then(t, Overwrite(t.slot, t.ret.val)) EXCEPT !.ret = Bool(TRUE)]
        ELSE [t EXCEPT !.ret = Bool(FALSE)]

\* mutant: stores the value whatever the slot holds
InsertAlways(s, value) == [Overwrite(s, value) EXCEPT !.ret = OkUnit]

Insert(s, value) ==
    LET q == IsOccupied(s)
    IN  IF q.ret.b
        THEN [q EXCEPT !.ret = InsertErr(value, "Occupied")]
        ELSE [Then(q, Overwrite(q.slot, value)) EXCEPT !.ret = OkUnit]

\* mutant: unwrap_or-style recovery instead of a panic
ForceTakeLenient(s) ==
    LET t == Take(s)
    IN  IF t.ret.tag = "Ok" THEN [t EXCEPT !.ret = Val(t.ret.val)]
                            ELSE [t EXCEPT !.ret = ErrEmpty]

\* Result::unwrap panics on Err
ForceTake(s) ==
    LET t == Take(s)
    IN  IF t.ret.tag = "Ok" THEN [t EXCEPT !.ret = Val(t.ret.val)]
                            ELSE [t EXCEPT !.ret = Panic]

(* ------------------------------ closures ------------------------------- *)

\* A closure is a record.  kind "user": a closure of the caller, which
\* computes fn of its argument and, when re # "none", first calls that method
\* of the same container (whose result it records in its captured state,
\* obs); re = "panic" unwinds instead of returning.  kinds "clone_inner" and
\* "clone" are the closures the library itself passes (lines 110 and 18).

Fns == {"id", "succ", "zero"}

\* the methods a closure may call that themselves take a closure or clone
Nested == {"apply_then_restore", "apply_and_update", "clone_inner", "clone"}

UserCb(re, fn, w) == [kind |-> "user", re |-> re, fn |-> fn, w |-> w]

\* the values a closure passes to insert and overwrite
ReentryArgs == {Fresh(0), Fresh(MaxVal)}

UserCbs ==
    {UserCb("none", fn, Fresh(0)) : fn \in Fns}
    \cup {UserCb(re, "id", Fresh(0)) : re \in {"take", "is_occupied", "panic"}}
    \cup {UserCb(re, "id", w) : re \in {"insert", "overwrite"}, w \in ReentryArgs}
    \cup {UserCb("insert", "succ", w) : w \in ReentryArgs}
    \cup {UserCb(re, "id", Fresh(0)) : re \in Nested}

CloneInnerCb == [kind |-> "clone_inner", re |-> "none"]

CloneCb == [kind |-> "clone", re |-> "none"]

\* |inner| write!(f, "{}", format_args!("Option::Some({:?})", inner)) (line 25)
DebugCb == [kind |-> "debug", re |-> "none"]

NoCb == [kind |-> "none", re |-> "none"]

NoArg == [tag |-> "NoArg"]

\* does not touch the container and returns normally
Pure(cb) == cb.re = "none"

\* a caller's fn as FnMut(&T) -> U, U modelled by Data
ApplyFn(fn, d) ==
    CASE fn = "id"   -> d
      [] fn = "succ" -> (d + 1) % (MaxVal + 1)
      [] fn = "zero" -> 0

\* a caller's fn as Fn(T) -> T: "id" hands its argument back, the others
\* build a new value
UpdateFn(fn, t) ==
    IF fn = "id" THEN t ELSE Fresh(ApplyFn(fn, t.data))

\* <T as Debug>::fmt: the text of a value
DebugT(v) == ToString(v.data)

\* fmt::Result Ok(()) with the text written to the Formatter, as tokens
Written(text) == [tag |-> "FmtOk", text |-> text]

\* the closure that a closure passes to its own, nested, call
InnerCb == UserCb("none", "succ", Fresh(0))

\* The methods as a closure calls them, one level down.  The closure passed
\* there does not call into the container, so it runs with the slot as the
\* method's take() left it; the bodies are those of lines 50-58, 61-65,
\* 106-111 and 17-20.

\* apply_then_restore(f) called by a closure, f computing fn on &t
NestedApplyThenRestore(s, fn) ==
    LET t == Take(s)
    IN  IF t.ret.tag = "Ok"
        THEN LET o == Overwrite(t.slot, t.ret.val)
             IN  [slot |-> o.slot, ret |-> Some(ApplyFn(fn, t.ret.val.data)),
                  calls |-> <<t.ret.val>>, obs |-> <<>>, dropped |-> o.dropped]
        ELSE [t EXCEPT !.ret = ResultOk(t.ret)]

\* apply_and_update(f) called by a closure, f computing fn on t
NestedApplyAndUpdate(s, fn) ==
    LET t == Take(s)
    IN  IF t.ret.tag = "Ok"
        THEN LET o == Overwrite(t.slot, UpdateFn(fn, t.ret.val))
             IN  [slot |-> o.slot, ret |-> Unit,
                  calls |-> <<t.ret.val>>, obs |-> <<>>, dropped |-> o.dropped]
        ELSE [t EXCEPT !.ret = Unit]

\* clone_inner() called by a closure
NestedCloneInner(s) ==
    LET t == Take(s)
    IN  IF t.ret.tag = "Ok"
        THEN LET o == Overwrite(t.slot, t.ret.val)
             IN  [slot |-> o.slot, ret |-> Some(CloneT(t.ret.val)),
                  calls |-> <<t.ret.val>>, obs |-> <<>>, dropped |-> o.dropped]
        ELSE [t EXCEPT !.ret = ResultOk(t.ret)]

\* clone() called by a closure: unwrap_or_default of the Option above
NestedClone(s) ==
    LET t == Take(s)
    IN  IF t.ret.tag = "Ok"
        THEN LET o == Overwrite(t.slot, t.ret.val)
             IN  [slot |-> o.slot, ret |-> CellValue(CellOptNew(CloneT(t.ret.val))),
                  calls |-> <<t.ret.val>>, obs |-> <<>>, dropped |-> o.dropped]
        ELSE [t EXCEPT !.ret = CellValue(CellOptDefault)]

\* what the closure's call into the same container does, on slot content s
Reenter(cb, s) ==
    CASE cb.re = "take"               -> Take(s)
      [] cb.re = "is_occupied"        -> IsOccupied(s)
      [] cb.re = "insert"             -> Insert(s, cb.w)
      [] cb.re = "overwrite"          -> Overwrite(s, cb.w)
      [] cb.re = "apply_then_restore" -> NestedApplyThenRestore(s, InnerCb.fn)
      [] cb.re = "apply_and_update"   -> NestedApplyAndUpdate(s, InnerCb.fn)
      [] cb.re = "clone_inner"        -> NestedCloneInner(s)
      [] cb.re = "clone"              -> NestedClone(s)
      [] OTHER                        -> Out(s, Unit)

Observed(cb, r) == IF cb.re \in {"none", "panic"} THEN <<>> ELSE <<r.ret>>

\* what f(&t) returns and leaves, r being the outcome of its call into the
\* container
CallF(cb, r, t) ==
    LET u == CASE cb.kind = "clone_inner" -> CloneT(t)
               [] cb.kind = "clone"       -> CellValue(CellOptNew(CloneT(t)))
               [] cb.kind = "debug"       ->
                      Written(<<"Option::Some(", DebugT(t), ")">>)
               [] OTHER                   -> ApplyFn(cb.fn, t.data)
    IN  [slot |-> r.slot, u |-> u, obs |-> Observed(cb, r), calls |-> r.calls,
         dropped |-> r.dropped, panicked |-> cb.re = "panic"]

\* the closure f of apply_then_restore called on &t while the slot holds s
RunF(cb, s, t) == CallF(cb, Reenter(cb, s), t)

\* what f(t) returns and leaves, r being the outcome of its call into the
\* container
CallG(cb, r, t) ==
    [slot |-> r.slot, u |-> UpdateFn(cb.fn, t), obs |-> Observed(cb, r),
     calls |-> r.calls, dropped |-> r.dropped, panicked |-> cb.re = "panic"]

\* the closure f of apply_and_update called on t (moved) while the slot holds s
RunG(cb, s, t) == CallG(cb, Reenter(cb, s), t)

(* ---------------------- the transactional methods ---------------------- *)

\* mutant: puts a duplicate back instead of the value taken
ApplyThenRestoreCopy(s, cb) ==
    LET t == Take(s)
    IN  IF t.ret.tag = "Ok"
        THEN LET c == RunF(cb, t.slot, t.ret.val)
                 o == Overwrite(c.slot, CloneT(t.ret.val))
             IN  [slot |-> o.slot, ret |-> Some(c.u), calls |-> <<t.ret.val>> \o c.calls,
                  obs |-> c.obs, dropped |-> c.dropped \o o.dropped]
        ELSE [t EXCEPT !.ret = None]

\* mutant: lends the value in place, the slot staying Occupied while f runs
ApplyThenRestoreInPlace(s, cb) ==
    IF s.tag = "Some"
    THEN LET c == RunF(cb, s, s.val)
         IN  [slot |-> c.slot, ret |-> Some(c.u), calls |-> <<s.val>> \o c.calls,
              obs |-> c.obs, dropped |-> c.dropped]
    ELSE Out(s, None)

\* mutant: puts the value back with insert, which keeps what the slot holds
ApplyThenRestoreIfEmpty(s, cb) ==
    LET t == Take(s)
    IN  IF t.ret.tag = "Ok"
        THEN LET c == RunF(cb, t.slot, t.ret.val)
                 o == Insert(c.slot, t.ret.val)
             IN  [slot |-> o.slot, ret |-> Some(c.u), calls |-> <<t.ret.val>> \o c.calls,
                  obs |-> c.obs, dropped |-> c.dropped \o o.dropped]
        ELSE [t EXCEPT !.ret = None]

\* lines 50-58: when f unwinds, overwrite is not reached and t is dropped
ApplyThenRestore(s, cb) ==
    LET t == Take(s)
    IN  IF t.ret.tag = "Ok"
        THEN LET c == RunF(cb, t.slot, t.ret.val)
                 o == Overwrite(c.slot, t.ret.val)
             IN  IF c.panicked
                 THEN [slot |-> c.slot, ret |-> Panic, calls |-> <<t.ret.val>> \o c.calls,
                       obs |-> c.obs, dropped |-> c.dropped \o <<t.ret.val>>]
                 ELSE [slot |-> o.slot, ret |-> Some(c.u), calls |-> <<t.ret.val>> \o c.calls,
                       obs |-> c.obs, dropped |-> c.dropped \o o.dropped]
        ELSE [t EXCEPT !.ret = ResultOk(t.ret)]

\* mutant: puts the old value back and loses f's result
ApplyAndUpdateKeepsOld(s, cb) ==
    LET t == Take(s)
    IN  IF t.ret.tag = "Ok"
        THEN LET c == RunG(cb, t.slot, t.ret.val)
                 o == Overwrite(c.slot, t.ret.val)
             IN  [slot |-> o.slot, ret |-> Unit, calls |-> <<t.ret.val>> \o c.calls,
                  obs |-> c.obs, dropped |-> c.dropped \o o.dropped]
        ELSE [t EXCEPT !.ret = Unit]

\* mutant: stores f's result with insert, which keeps what the slot holds
ApplyAndUpdateIfEmpty(s, cb) ==
    LET t == Take(s)
    IN  IF t.ret.tag = "Ok"
        THEN LET c == RunG(cb, t.slot, t.ret.val)
                 o == Insert(c.slot, c.u)
             IN  [slot |-> o.slot, ret |-> Unit, calls |-> <<t.ret.val>> \o c.calls,
                  obs |-> c.obs, dropped |-> c.dropped \o o.dropped]
        ELSE [t EXCEPT !.ret = Unit]

\* lines 61-65: f(t) is evaluated before overwrite is called
ApplyAndUpdate(s, cb) ==
    LET t == Take(s)
    IN  IF t.ret.tag = "Ok"
        THEN LET c == RunG(cb, t.slot, t.ret.val)
                 o == Overwrite(c.slot, c.u)
             IN  IF c.panicked
                 THEN [slot |-> c.slot, ret |-> Panic, calls |-> <<t.ret.val>> \o c.calls,
                       obs |-> c.obs, dropped |-> c.dropped]
                 ELSE [slot |-> o.slot, ret |-> Unit, calls |-> <<t.ret.val>> \o c.calls,
                       obs |-> c.obs, dropped |-> c.dropped \o o.dropped]
        ELSE [t EXCEPT !.ret = Unit]

\* mutant: moves the value out (a plain take) instead of duplicating it
CloneInnerMoves(s) ==
    LET t == Take(s)
    IN  [t EXCEPT !.ret = ResultOk(t.ret)]

CloneInner(s) == ApplyThenRestore(s, CloneInnerCb)

\* Option::unwrap_or_default on Option<CellOpt<T>>
UnwrapOrDefault(o) == IF o.tag = "Some" THEN o.val ELSE CellValue(CellOptDefault)

\* mutant: builds the new container from the value taken, leaving the source empty
CloneSteals(s) ==
    LET t == Take(s)
    IN  [t EXCEPT !.ret = UnwrapOrDefault(
             IF t.ret.tag = "Ok" THEN Some(CellValue(CellOptNew(CloneT(t.ret.val))))
                                 ELSE None)]

Clone(s) ==
    LET r == ApplyThenRestore(s, CloneCb)
    IN  [r EXCEPT !.ret = UnwrapOrDefault(r.ret)]

\* Option::unwrap_or_else(|| write!(f, "None"))
UnwrapOrElseNone(o) == IF o.tag = "Some" THEN o.val ELSE Written(<<"None">>)

\* mutant: renders the value taken and does not put it back
FmtTakes(s) ==
    LET t == Take(s)
    IN  [t EXCEPT !.ret = UnwrapOrElseNone(
             IF t.ret.tag = "Ok"
             THEN Some(Written(<<"Option::Some(", DebugT(t.ret.val), ")">>))
             ELSE None)]

\* Debug for CellOpt (lines 23-28)
Fmt(s) ==
    LET r == ApplyThenRestore(s, DebugCb)
    IN  [r EXCEPT !.ret = UnwrapOrElseNone(r.ret)]

(* ------------------------------- state --------------------------------- *)

\* cells[i]: the slot content of the container bound to name i.
\* last: the call that returned last, with the slot content before it.
\* hist: the calls made since construction (kept by ScenSpec only).
\* abs: the abstract two-state machine run beside the calls (by RefSpec only).

Record(op, i, j, arg, cb, pre, o) ==
    [op |-> op, cell |-> i, dst |-> j, arg |-> arg, cb |-> cb, pre |-> pre,
     ret |-> o.ret, calls |-> o.calls, obs |-> o.obs, dropped |-> o.dropped]

\* a method called on container i through &self
Call(op, i, arg, cb, o) ==
    /\ cells' = [cells EXCEPT ![i] = o.slot]
    /\ last' = Record(op, i, i, arg, cb, cells[i], o)

Init ==
    /\ cells = [i \in Cells |-> CellOptDefault]
    /\ last = Record("default", 1, 1, NoArg, NoCb, CellOptDefault,
                     Out(CellOptDefault, CellValue(CellOptDefault)))
    /\ hist = <<>>
    /\ abs = [slot |-> cells, ret |-> last.ret]

\* let c_i = CellOpt::new(value)
New(i, value) ==
    /\ cells' = [cells EXCEPT ![i] = CellOptNew(value)]
    /\ last' = Record("new", i, i, value, NoCb, CellOptDefault,
                      Out(CellOptNew(value), CellValue(CellOptNew(value))))

\* let c_i = CellOpt::default()
Default(i) ==
    /\ cells' = [cells EXCEPT ![i] = CellOptDefault]
    /\ last' = Record("default", i, i, NoArg, NoCb, CellOptDefault,
                      Out(CellOptDefault, CellValue(CellOptDefault)))

\* let c_j = c_i.clone()
CloneOp(i, j) ==
    /\ i # j
    /\ LET o == Clone(cells[i])
       IN  /\ cells' = [cells EXCEPT ![i] = o.slot, ![j] = o.ret.slot]
           /\ last' = Record("clone", i, j, NoArg, CloneCb, cells[i], o)

TakeOp(i) == Call("take", i, NoArg, NoCb, Take(cells[i]))

ForceTakeOp(i) == Call("force_take", i, NoArg, NoCb, ForceTake(cells[i]))

InsertOp(i, value) == Call("insert", i, value, NoCb, Insert(cells[i], value))

OverwriteOp(i, value) == Call("overwrite", i, value, NoCb, Overwrite(cells[i], value))

IsOccupiedOp(i) == Call("is_occupied", i, NoArg, NoCb, IsOccupied(cells[i]))

CloneInnerOp(i) == Call("clone_inner", i, NoArg, CloneInnerCb, CloneInner(cells[i]))

\* format!("{:?}", c_i)
FmtOp(i) == Call("fmt", i, NoArg, DebugCb, Fmt(cells[i]))

ApplyThenRestoreOp(i, cb) ==
    Call("apply_then_restore", i, NoArg, cb, ApplyThenRestore(cells[i], cb))

ApplyAndUpdateOp(i, cb) ==
    Call("apply_and_update", i, NoArg, cb, ApplyAndUpdate(cells[i], cb))

Next ==
    \/ \E i \in Cells, v \in Inputs : New(i, v) /\ UNCHANGED <<hist, abs>>
    \/ \E i \in Cells : Default(i) /\ UNCHANGED <<hist, abs>>
    \/ \E i \in Cells, j \in Cells : CloneOp(i, j) /\ UNCHANGED <<hist, abs>>
    \/ \E i \in Cells : TakeOp(i) /\ UNCHANGED <<hist, abs>>
    \/ \E i \in Cells : ForceTakeOp(i) /\ UNCHANGED <<hist, abs>>
    \/ \E i \in Cells, v \in Inputs : InsertOp(i, v) /\ UNCHANGED <<hist, abs>>
    \/ \E i \in Cells, v \in Inputs : OverwriteOp(i, v) /\ UNCHANGED <<hist, abs>>
    \/ \E i \in Cells : IsOccupiedOp(i) /\ UNCHANGED <<hist, abs>>
    \/ \E i \in Cells : CloneInnerOp(i) /\ UNCHANGED <<hist, abs>>
    \/ \E i \in Cells : FmtOp(i) /\ UNCHANGED <<hist, abs>>
    \/ \E i \in Cells, cb \in UserCbs : ApplyThenRestoreOp(i, cb) /\ UNCHANGED <<hist, abs>>
    \/ \E i \in Cells, cb \in UserCbs : ApplyAndUpdateOp(i, cb) /\ UNCHANGED <<hist, abs>>

Spec == Init /\ [][Next]_vars

(* ------------------- the scenario of insert and take ------------------- *)

\* ScenSpec: c_1 = CellOpt::new(a), then up to ScenLen calls of insert and
\* take on c_1, each appended to hist with what it returned.

Entry(l) == [op |-> l.op, arg |-> l.arg, ret |-> l.ret]

ScenInit ==
    \E a \in Inputs :
        /\ cells = [i \in Cells |-> IF i = 1 THEN CellOptNew(a) ELSE CellOptDefault]
        /\ last = Record("new", 1, 1, a, NoCb, CellOptDefault,
                         Out(CellOptNew(a), CellValue(CellOptNew(a))))
        /\ hist = <<Entry(last)>>
        /\ abs = [slot |-> cells, ret |-> last.ret]

ScenNext ==
    \/ \E v \in Inputs :
          /\ Len(hist) <= ScenLen
          /\ InsertOp(1, v)
          /\ hist' = Append(hist, Entry(last'))
          /\ UNCHANGED abs
    \/ /\ Len(hist) <= ScenLen
       /\ TakeOp(1)
       /\ hist' = Append(hist, Entry(last'))
       /\ UNCHANGED abs

ScenSpec == ScenInit /\ [][ScenNext]_vars

(* ------------------ the abstract two-state machine --------------------- *)

\* The transition table of the slot, Empty / Occupied(v), each call one
\* atomic transition: the slot after it and what it returns.
AbsStep(op, s, arg, cb) ==
    CASE op = "new"         -> [slot |-> Some(arg), ret |-> CellValue(Some(arg))]
      [] op = "default"     -> [slot |-> None, ret |-> CellValue(None)]
      [] op = "take"        ->
            IF s = None THEN [slot |-> None, ret |-> ErrEmpty]
                        ELSE [slot |-> None, ret |-> Ok(s.val)]
      [] op = "overwrite"   -> [slot |-> Some(arg), ret |-> Unit]
      [] op = "insert"      ->
            IF s = None THEN [slot |-> Some(arg), ret |-> OkUnit]
                        ELSE [slot |-> s, ret |-> InsertErr(arg, "Occupied")]
      [] op = "is_occupied" -> [slot |-> s, ret |-> Bool(s # None)]
      [] op = "apply_then_restore" ->
            IF s = None THEN [slot |-> None, ret |-> None]
                        ELSE [slot |-> s, ret |-> Some(ApplyFn(cb.fn, s.val.data))]
      [] op = "apply_and_update" ->
            IF s = None THEN [slot |-> None, ret |-> Unit]
                        ELSE [slot |-> Some(UpdateFn(cb.fn, s.val)), ret |-> Unit]
      [] op = "clone_inner" ->
            IF s = None THEN [slot |-> None, ret |-> None]
                        ELSE [slot |-> s, ret |-> Some(CloneT(s.val))]

\* the abstract machine makes the transition of op on container i
AbsDo(op, i, arg, cb) ==
    LET a == AbsStep(op, abs.slot[i], arg, cb)
    IN  abs' = [slot |-> [abs.slot EXCEPT ![i] = a.slot], ret |-> a.ret]

\* the closures that do not touch the container
PureCbs == {cb \in UserCbs : Pure(cb)}

\* RefSpec: the non-reentrant calls, the abstract machine stepping with each
RefNext ==
    \/ \E i \in Cells, v \in Inputs :
          New(i, v) /\ AbsDo("new", i, v, NoCb) /\ UNCHANGED hist
    \/ \E i \in Cells :
          Default(i) /\ AbsDo("default", i, NoArg, NoCb) /\ UNCHANGED hist
    \/ \E i \in Cells :
          TakeOp(i) /\ AbsDo("take", i, NoArg, NoCb) /\ UNCHANGED hist
    \/ \E i \in Cells, v \in Inputs :
          OverwriteOp(i, v) /\ AbsDo("overwrite", i, v, NoCb) /\ UNCHANGED hist
    \/ \E i \in Cells, v \in Inputs :
          InsertOp(i, v) /\ AbsDo("insert", i, v, NoCb) /\ UNCHANGED hist
    \/ \E i \in Cells :
          IsOccupiedOp(i) /\ AbsDo("is_occupied", i, NoArg, NoCb) /\ UNCHANGED hist
    \/ \E i \in Cells, cb \in PureCbs :
          /\ ApplyThenRestoreOp(i, cb)
          /\ AbsDo("apply_then_restore", i, NoArg, cb)
          /\ UNCHANGED hist
    \/ \E i \in Cells, cb \in PureCbs :
          /\ ApplyAndUpdateOp(i, cb)
          /\ AbsDo("apply_and_update", i, NoArg, cb)
          /\ UNCHANGED hist
    \/ \E i \in Cells :
          CloneInnerOp(i) /\ AbsDo("clone_inner", i, NoArg, CloneInnerCb) /\ UNCHANGED hist

RefSpec == Init /\ [][RefNext]_vars

(* ------------------------------- claims -------------------------------- *)

\* the slot content, now, of the container the last call was made on
Cur == cells[last.cell]

PreOccupied == last.pre.tag = "Some"

\* C1 (state part): take() on Occupied(v) returns Ok(v) and leaves the slot
\* Empty; on Empty it returns Err(Empty) and leaves the slot Empty.
C1_TakeState ==
    last.op = "take" =>
        /\ Cur = None
        /\ last.ret = IF PreOccupied THEN Ok(last.pre.val) ELSE ErrEmpty

\* C1 (step part): a take() right after a successful take() of the same
\* container fails with Empty.
C1_SecondTake ==
    (last.op = "take" /\ last.ret.tag = "Ok"
        /\ last'.op = "take" /\ last'.cell = last.cell)
    => last'.ret = ErrEmpty

\* C1: take() returns Ok(v) from Occupied(v) and Err(Empty) from Empty, leaves
\* the slot Empty either way, and a second take() right after a successful
\* one fails with Empty.
C1_Take == [](C1_TakeState) /\ [][C1_SecondTake]_vars

C1_Witness ==
    /\ last.op = "take"
    /\ PreOccupied
    /\ last.ret = Ok(last.pre.val)
    /\ Cur = None

\* C2: insert(v1) on Empty returns Ok(()) and leaves Occupied(v1); insert(v2)
\* on Occupied(v1) returns InsertErr{insert_try = v2, err = Occupied} and the
\* slot still holds v1.
C2_Insert ==
    last.op = "insert" =>
        IF PreOccupied
        THEN /\ last.ret = InsertErr(last.arg, "Occupied")
             /\ Cur = last.pre
        ELSE /\ last.ret = OkUnit
             /\ Cur = Some(last.arg)

C2_Witness ==
    /\ last.op = "insert"
    /\ PreOccupied
    /\ last.pre.val # last.arg
    /\ last.ret.tag = "Err"
    /\ last.ret.insert_try = last.arg
    /\ Cur = last.pre

\* C3: overwrite(v) from Empty or Occupied(w) returns () and leaves
\* Occupied(v); a held w is dropped: not returned, not left in the slot.
C3_Overwrite ==
    last.op = "overwrite" =>
        /\ last.ret = Unit
        /\ Cur = Some(last.arg)
        /\ last.dropped = IF PreOccupied THEN <<last.pre.val>> ELSE <<>>

C3_Witness ==
    /\ last.op = "overwrite"
    /\ PreOccupied
    /\ last.pre.val # last.arg
    /\ Cur = Some(last.arg)
    /\ last.dropped = <<last.pre.val>>

\* C4: for a closure f that does not touch the container,
\* apply_then_restore(f) on Occupied(v) calls f once, on v, returns Some(f(v))
\* and leaves the slot holding v itself (not a duplicate); on Empty it returns
\* None without calling f and leaves the slot Empty.
C4_RoundTrip ==
    (last.op = "apply_then_restore" /\ Pure(last.cb)) =>
        IF PreOccupied
        THEN /\ last.calls = <<last.pre.val>>
             /\ last.ret = Some(ApplyFn(last.cb.fn, last.pre.val.data))
             /\ Cur = Some(last.pre.val)
        ELSE /\ last.calls = <<>>
             /\ last.ret = None
             /\ Cur = None

C4_Witness ==
    /\ last.op = "apply_then_restore"
    /\ Pure(last.cb)
    /\ last.cb.fn = "succ"
    /\ PreOccupied
    /\ ~last.pre.val.copy
    /\ last.ret = Some((last.pre.val.data + 1) % (MaxVal + 1))
    /\ Cur = last.pre

\* C5: for a closure g that does not touch the container,
\* apply_and_update(g) on Occupied(v) leaves Occupied(g(v)); on Empty it does
\* not call g, returns () and leaves the slot Empty.
C5_Update ==
    (last.op = "apply_and_update" /\ Pure(last.cb)) =>
        IF PreOccupied
        THEN /\ last.calls = <<last.pre.val>>
             /\ last.ret = Unit
             /\ Cur = Some(UpdateFn(last.cb.fn, last.pre.val))
        ELSE /\ last.calls = <<>>
             /\ last.ret = Unit
             /\ Cur = None

C5_Witness ==
    /\ last.op = "apply_and_update"
    /\ Pure(last.cb)
    /\ last.cb.fn = "succ"
    /\ PreOccupied
    /\ Cur.tag = "Some"
    /\ Cur.val.data = (last.pre.val.data + 1) % (MaxVal + 1)
    /\ Cur # last.pre

\* C6 (state part): is_occupied() returns true exactly on an Occupied slot
\* and leaves the slot content as it was.
C6_IsOccupiedState ==
    last.op = "is_occupied" =>
        /\ last.ret = Bool(PreOccupied)
        /\ Cur = last.pre

\* C6 (step part): is_occupied() right after new(v) is true, right after
\* default() is false, and a take() or clone_inner() that follows
\* is_occupied() returns what it would have returned before it.
C6_IsOccupiedStep ==
    /\ (last.op \in {"new", "default"} /\ last'.op = "is_occupied"
            /\ last'.cell = last.cell)
       => last'.ret = Bool(last.op = "new")
    /\ (last.op = "is_occupied" /\ last'.op = "take" /\ last'.cell = last.cell)
       => last'.ret = IF last.pre.tag = "Some" THEN Ok(last.pre.val) ELSE ErrEmpty
    /\ (last.op = "is_occupied" /\ last'.op = "clone_inner" /\ last'.cell = last.cell)
       => last'.ret = IF last.pre.tag = "Some" THEN Some(CloneT(last.pre.val)) ELSE None

\* C6: is_occupied() is a read-only predicate: true exactly when Occupied
\* (new(v): true, default(): false), the slot is unchanged by it, and calls
\* of it never change what a following take() or clone_inner() returns.
C6_IsOccupied == [](C6_IsOccupiedState) /\ [][C6_IsOccupiedStep]_vars

C6_Witness ==
    /\ last.op = "is_occupied"
    /\ PreOccupied
    /\ last.ret = Bool(TRUE)
    /\ Cur = last.pre

\* the same value, whether or not a duplicate of it
SameData(o1, o2) ==
    /\ o1.tag = o2.tag
    /\ o1.tag = "Some" => o1.val.data = o2.val.data

\* C7 (state part): clone() of Occupied(v) yields a container Occupied(v), of
\* Empty an Empty one, and leaves the source as it was.
C7_CloneState ==
    last.op = "clone" =>
        /\ Cur = last.pre
        /\ SameData(cells[last.dst], last.pre)
        /\ last.ret = CellValue(cells[last.dst])

\* C7 (step part): a call on one container, the construction or the clone of
\* one, leaves every other container as it was.
C7_Independent ==
    \A i \in Cells : i \notin {last'.cell, last'.dst} => cells'[i] = cells[i]

\* C7: clone() yields a container in the source's state and leaves the
\* source unchanged, and no later call on one container changes another.
C7_Clone == [](C7_CloneState) /\ [][C7_Independent]_vars

C7_Witness ==
    /\ last.op = "clone"
    /\ PreOccupied
    /\ Cur = last.pre
    /\ cells[last.dst] = Some(CloneT(last.pre.val))

ScenCalls(b) ==
    <<[op |-> "insert", arg |-> b], [op |-> "take", arg |-> NoArg],
      [op |-> "insert", arg |-> b], [op |-> "take", arg |-> NoArg],
      [op |-> "take", arg |-> NoArg]>>

ScenRets(a, b) == <<InsertErr(b, "Occupied"), Ok(a), OkUnit, Ok(b), ErrEmpty>>

\* the first k calls after new(a) are the first k calls of the scenario
ScenPrefix(b, k) ==
    /\ k + 1 <= Len(hist)
    /\ \A j \in 1..k :
          [op |-> hist[j + 1].op, arg |-> hist[j + 1].arg] = ScenCalls(b)[j]

\* C8: from c = new(a), for b # a, the calls insert(b), take(), insert(b),
\* take(), take() return Err{insert_try = b, err = Occupied}, Ok(a), Ok(()),
\* Ok(b), Err(Empty), in that order.
C8_Scenario ==
    \A b \in Inputs : \A k \in 1..5 :
        (hist[1].arg # b /\ ScenPrefix(b, k)) => hist[k + 1].ret = ScenRets(hist[1].arg, b)[k]

C8_Witness ==
    \E b \in Inputs :
        /\ hist[1].op = "new"
        /\ hist[1].arg # b
        /\ ScenPrefix(b, 5)
        /\ hist[6].ret = ErrEmpty
        /\ hist[5].ret = Ok(b)

\* C9: force_take() on Occupied(v) returns v and leaves the slot Empty, as
\* take() does; on Empty it panics, the slot still Empty.
C9_ForceTake ==
    last.op = "force_take" =>
        /\ Cur = None
        /\ last.ret = IF PreOccupied THEN Val(last.pre.val) ELSE Panic

C9_Witness ==
    /\ last.op = "force_take"
    /\ ~PreOccupied
    /\ last.ret = Panic
    /\ Cur = None

\* C10: clone_inner() on Occupied(v) returns Some(duplicate of v) and leaves
\* Occupied(v); on Empty it returns None and leaves Empty.
C10_CloneInner ==
    last.op = "clone_inner" =>
        /\ Cur = last.pre
        /\ last.ret = IF PreOccupied THEN Some(CloneT(last.pre.val)) ELSE None

C10_Witness ==
    /\ last.op = "clone_inner"
    /\ PreOccupied
    /\ last.ret = Some(CloneT(last.pre.val))
    /\ Cur = last.pre

\* every value a slot can hold
AllValues == {Fresh(d) : d \in Data} \cup {CloneT(Fresh(d)) : d \in Data}

\* C11: Debug formatting leaves the slot as it was; Occupied(v) renders text
\* that embeds v's rendering, Empty renders the fixed marker "None", which no
\* Occupied container renders; formatting does not panic.
C11_Debug ==
    last.op = "fmt" =>
        /\ Cur = last.pre
        /\ last.ret.tag = "FmtOk"
        /\ IF PreOccupied
           THEN \E k \in 1..Len(last.ret.text) : last.ret.text[k] = DebugT(last.pre.val)
           ELSE /\ last.ret.text = <<"None">>
                /\ \A v \in AllValues : Fmt(Some(v)).ret.text # last.ret.text

C11_Witness ==
    /\ last.op = "fmt"
    /\ PreOccupied
    /\ last.ret = Written(<<"Option::Some(", DebugT(last.pre.val), ")">>)
    /\ Cur = last.pre

\* the methods whose body starts with take()
TakingOps ==
    {"take", "force_take", "insert", "is_occupied", "apply_then_restore",
     "apply_and_update", "clone_inner", "clone", "fmt"}

\* what method op does on slot content s
Outcome(op, s, arg, cb) ==
    CASE op = "take"               -> Take(s)
      [] op = "force_take"         -> ForceTake(s)
      [] op = "insert"             -> Insert(s, arg)
      [] op = "overwrite"          -> Overwrite(s, arg)
      [] op = "is_occupied"        -> IsOccupied(s)
      [] op = "apply_then_restore" -> ApplyThenRestore(s, cb)
      [] op = "apply_and_update"   -> ApplyAndUpdate(s, cb)
      [] op = "clone_inner"        -> CloneInner(s)
      [] op = "clone"              -> Clone(s)
      [] op = "fmt"                -> Fmt(s)

\* the call's take() failed and its return value does not tell: the same
\* call returns the same on some Occupied slot
Swallowed ==
    /\ last.op \in TakingOps
    /\ ~PreOccupied
    /\ \E v \in AllValues : Outcome(last.op, Some(v), last.arg, last.cb).ret = last.ret

IsError(r) == r.tag = "Err"

\* C12: an error value is Empty from take() on an Empty slot or Occupied from
\* insert() on an Occupied slot, and nothing else (also for the calls a
\* closure makes); with a closure that does not touch the container and
\* returns normally, only force_take on Empty panics and only
\* apply_and_update on Empty swallows the failure of its take().
C12_Errors ==
    /\ IsError(last.ret) =>
          \/ last.ret = ErrEmpty /\ last.op = "take" /\ ~PreOccupied
          \/ last.ret = InsertErr(last.arg, "Occupied") /\ last.op = "insert" /\ PreOccupied
    /\ \A k \in 1..Len(last.obs) :
          IsError(last.obs[k]) =>
             \/ last.obs[k] = ErrEmpty /\ last.cb.re = "take"
             \/ last.obs[k] = InsertErr(last.cb.w, "Occupied") /\ last.cb.re = "insert"
    /\ (Pure(last.cb) /\ last.ret = Panic) => (last.op = "force_take" /\ ~PreOccupied)
    /\ (Pure(last.cb) /\ Swallowed) => last.op = "apply_and_update"

C12_Witness ==
    /\ last.op = "apply_and_update"
    /\ Pure(last.cb)
    /\ ~PreOccupied
    /\ Swallowed
    /\ last.ret = Unit
    /\ Cur = None

\* the last call is apply_then_restore or apply_and_update, made on an
\* Occupied slot with a closure of the caller that returned normally
Transaction ==
    /\ last.op \in {"apply_then_restore", "apply_and_update"}
    /\ PreOccupied
    /\ last.cb.kind = "user"
    /\ last.cb.re # "panic"

\* what the transaction leaves in the slot when nothing interferes
Reinstated ==
    IF last.op = "apply_then_restore"
    THEN Some(last.pre.val)
    ELSE Some(UpdateFn(last.cb.fn, last.pre.val))

\* C13: inside the closure of apply_then_restore / apply_and_update on
\* Occupied(v) the container is Empty: is_occupied() is false, take() is
\* Err(Empty), insert(w) is Ok(()).  The inserted w is dropped: on return the
\* slot holds v (apply_then_restore) or g(v) (apply_and_update) and the call
\* reports no error.
C13_Reentrancy ==
    Transaction =>
        /\ last.cb.re = "is_occupied" => last.obs = <<Bool(FALSE)>>
        /\ last.cb.re = "take" => last.obs = <<ErrEmpty>>
        /\ last.cb.re = "insert" =>
              /\ last.obs = <<OkUnit>>
              /\ last.dropped = <<last.cb.w>>
              /\ Cur = Reinstated
              /\ last.ret = IF last.op = "apply_then_restore"
                            THEN Some(ApplyFn(last.cb.fn, last.pre.val.data))
                            ELSE Unit

C13_Witness ==
    /\ Transaction
    /\ last.op = "apply_and_update"
    /\ last.cb.re = "insert"
    /\ last.cb.fn = "succ"
    /\ last.cb.w # last.pre.val
    /\ last.cb.w # UpdateFn("succ", last.pre.val)
    /\ last.obs = <<OkUnit>>
    /\ Cur = Some(UpdateFn("succ", last.pre.val))

\* a result that tells its caller the slot held no value
ShowsEmpty(r) == r \in {Bool(FALSE), ErrEmpty, OkUnit}

\* C14 as stated: across apply_then_restore on Occupied(v), with any closure
\* that returns normally, no caller on the thread (the closure included)
\* finds the value missing, and the slot holds v on return.
C14_NeverMissing ==
    (Transaction /\ last.op = "apply_then_restore") =>
        /\ Cur = Some(last.pre.val)
        /\ \A k \in 1..Len(last.obs) : ~ShowsEmpty(last.obs[k])

\* C14 (amended): for every closure f that returns normally, also one that
\* calls take(), insert() or overwrite() on the same container,
\* apply_then_restore on Occupied(v) returns with the slot holding the v
\* taken at the start; the value is missing only to f's own calls.
C14_Restored ==
    (Transaction /\ last.op = "apply_then_restore") =>
        /\ Cur = Some(last.pre.val)
        /\ last.calls[1] = last.pre.val
        /\ \A k \in 1..Len(last.obs) :
              last.cb.re \in {"take", "is_occupied", "insert"} => ShowsEmpty(last.obs[k])

C14_Witness ==
    /\ Transaction
    /\ last.op = "apply_then_restore"
    /\ last.cb.re = "overwrite"
    /\ last.cb.w # last.pre.val
    /\ last.dropped = <<last.cb.w>>
    /\ Cur = Some(last.pre.val)

\* C15: apply_then_restore and apply_and_update reinstate a value on every
\* exit path of the closure, unwinding included: a container Occupied before
\* the call is not Empty after it.
C15_RestoredOnEveryExit ==
    (last.op \in {"apply_then_restore", "apply_and_update"} /\ PreOccupied)
    => Cur.tag = "Some"

\* C16: after every completed call of a sequence of non-reentrant calls
\* (new, default, take, overwrite, insert, is_occupied, apply_then_restore,
\* apply_and_update, clone_inner) the slots and the value returned are those
\* of the atomic two-state transition table: the Empty window inside insert,
\* is_occupied, apply_then_restore and apply_and_update does not show.
C16_Refinement ==
    /\ abs.slot = cells
    /\ abs.ret = last.ret

C16_Witness ==
    /\ last.op = "insert"
    /\ PreOccupied
    /\ last.ret = InsertErr(last.arg, "Occupied")
    /\ \E i \in Cells : i # last.cell /\ cells[i] # None
    /\ abs.slot = cells
    /\ abs.ret = last.ret

\* the values given to the container by the last call, with the one it held
GivenIn ==
    Held(last.pre)
    \o (IF last.op \in {"new", "insert", "overwrite"} THEN <<last.arg>> ELSE <<>>)
    \o (IF last.op = "apply_and_update" /\ PreOccupied
        THEN <<UpdateFn(last.cb.fn, last.pre.val)>> ELSE <<>>)

\* the values the last call handed to its caller by value
HandedBack ==
    CASE last.op = "take" /\ last.ret.tag = "Ok"        -> <<last.ret.val>>
      [] last.op = "force_take" /\ last.ret.tag = "Val" -> <<last.ret.val>>
      [] last.op = "insert" /\ last.ret.tag = "Err"     -> <<last.ret.insert_try>>
      [] last.op = "apply_and_update"                   -> last.calls
      [] OTHER                                          -> <<>>

\* where the values are after the last call: slot, caller, dropped
FoundOut == Held(Cur) \o HandedBack \o last.dropped

Count(seq, x) == Cardinality({k \in DOMAIN seq : seq[k] = x})

\* C17: in non-reentrant use every value held by or given to the container
\* is, after each call, in exactly one place: the slot, the caller's hands
\* (take, force_take, a failed insert, the argument of apply_and_update's
\* closure) or dropped; and only overwrite on an Occupied slot drops a value,
\* the one that was held.
C17_Conservation ==
    Pure(last.cb) =>
        /\ \A x \in AllValues : Count(GivenIn, x) = Count(FoundOut, x)
        /\ last.dropped # <<>> =>
              (last.op = "overwrite" /\ PreOccupied /\ last.dropped = <<last.pre.val>>)

C17_Witness ==
    /\ last.op = "insert"
    /\ PreOccupied
    /\ last.arg # last.pre.val
    /\ GivenIn = <<last.pre.val, last.arg>>
    /\ FoundOut = <<last.pre.val, last.arg>>
    /\ last.dropped = <<>>

\* C18: when the closure of apply_then_restore on Occupied(v) calls
\* apply_then_restore, clone_inner or apply_and_update on the same container,
\* that call sees Empty: it returns None (or is a no-op) and does not call
\* its own closure; clone() made there yields an Empty container.  The outer
\* call still returns Some(f(v)) and leaves Occupied(v).
C18_Nested ==
    (Transaction /\ last.op = "apply_then_restore" /\ last.cb.re \in Nested) =>
        /\ last.obs = <<CASE last.cb.re = "apply_and_update" -> Unit
                          [] last.cb.re = "clone"            -> CellValue(None)
                          [] OTHER                           -> None>>
        /\ last.calls = <<last.pre.val>>
        /\ last.ret = Some(ApplyFn(last.cb.fn, last.pre.val.data))
        /\ Cur = Some(last.pre.val)

C18_Witness ==
    /\ Transaction
    /\ last.op = "apply_then_restore"
    /\ last.cb.re = "clone"
    /\ last.obs = <<CellValue(None)>>
    /\ Cur = Some(last.pre.val)
    /\ last.ret = Some(last.pre.val.data)

====
